---- MODULE Spec2Model ----
(***************************************************************************)
(* A state-machine model of neon_swarm: the Neon management-API tools and  *)
(* SQL tools of src/src/neon_swarm/tools.py, the three agents and their    *)
(* hand-off functions of src/src/neon_swarm/agents.py, and the session     *)
(* entry points of src/src/neon_swarm/main.py and src/main.py.             *)
(*                                                                         *)
(* Python values are modelled as follows: a dict is a function whose       *)
(* domain is its key set (a TLA+ record), a list is a sequence, None is    *)
(* the string "None", a str that the code inspects character by character  *)
(* (a SQL statement) is a sequence of one-character strings.               *)
(***************************************************************************)
EXTENDS Integers, Sequences, FiniteSets, TLC

VARIABLES
    session,            \* "none" | "running" | "crashed": the driving loop's life cycle
    entry,              \* which entry point started the session ("none" before)
    active,             \* the Agent the driving loop currently runs
    context_variables,  \* the shared context dict of the session
    tool,               \* name of the function the last step invoked ("none" before)
    calls,              \* the API calls made by the last step: <<[fn, request, response, result]>>
    sql,                \* what the last execute_sql call did (NoSql when the last step made none)
    openConns,          \* connections opened by execute_sql and not closed yet
    initialAgent,       \* history: the Agent the session started with
    lastHandoff         \* history: the most recent hand-off function invoked ("none" before)

vars == <<session, entry, active, context_variables, tool, calls, sql,
          openConns, initialAgent, lastHandoff>>

(***************************************************************************)
(* Bounds of the model.                                                    *)
(***************************************************************************)
\* Longest "projects" list an upstream payload carries.
MaxProjects == 2
\* Longest row list a SELECT returns.
MaxRows == 3
\* Connections the database server accepts at once (max_connections).
MaxOpenConns == 1

(***************************************************************************)
(* Python values.                                                          *)
(***************************************************************************)
None == "None"

EmptyDict == << >>

\* dict.get(key, default)
Get(d, key, default) == IF key \in DOMAIN d THEN d[key] ELSE default

\* The outcome of a Python call: a returned value or a raised exception.
Return(v) == [kind |-> "return", value |-> v]

Raise(e) == [kind |-> "raise", value |-> [exception |-> e]]

SeqsUpTo(S, n) == UNION {[1..k -> S] : k \in 0..n}

(***************************************************************************)
(* HTTP: what requests.get/post/delete can produce.                        *)
(***************************************************************************)
\* Status codes of the responses drawn: 2xx, 3xx, 4xx, 5xx.
StatusCodes == {200, 304, 404, 500}

IsSuccess(status) == status >= 200 /\ status < 300

\* A response whose body is the JSON document `body`.
JsonResponse(status, body) ==
    [kind |-> "response", status |-> status, is_json |-> TRUE, body |-> body]

\* A response whose body is not JSON (empty, HTML, ...).
TextResponse(status) ==
    [kind |-> "response", status |-> status, is_json |-> FALSE, body |-> EmptyDict]

\* requests raised before any response arrived.
NoResponse ==
    [kind |-> "ConnectionError", status |-> 0, is_json |-> FALSE, body |-> EmptyDict]

\* The body of an error response of the management API.
ErrorBody == [message |-> "error"]

\* Everything a request for a resource whose 2xx bodies are `bodies` can meet.
Responses(bodies) ==
    {JsonResponse(s, b) : s \in {t \in StatusCodes : IsSuccess(t)}, b \in bodies}
    \cup {JsonResponse(s, ErrorBody) : s \in {t \in StatusCodes : ~IsSuccess(t)}}
    \cup {TextResponse(s) : s \in {t \in StatusCodes : t < 400}}
    \cup {NoResponse}

\* response.raise_for_status(): HTTPError for 4xx and 5xx only.
RaisesForStatus(response) == response.status >= 400 /\ response.status < 600

\* tools.py handle_response
handle_response(response) ==
    IF RaisesForStatus(response)
    THEN Return([error |-> <<"HTTPError", response.status>>])
    ELSE IF response.is_json
         THEN Return(response.body)
         ELSE Raise("JSONDecodeError")

\* requests.<verb>(...) followed by handle_response(response), outside any try.
Fetch(response) ==
    IF response.kind = "ConnectionError"
    THEN Raise("ConnectionError")
    ELSE handle_response(response)

(***************************************************************************)
(* Upstream payloads.                                                      *)
(***************************************************************************)
\* Project records as the API may send them: every field and more, or
\* only some fields and others.
ProjectRecords ==
    { [id |-> "p1", name |-> "n1", region_id |-> "r1", pg_version |-> "16",
       org_id |-> "o1", created_at |-> "t1", owner_id |-> "u1"],
      [id |-> "p2", name |-> "n2", branch_logical_size_limit |-> "0"] }

ProjectsBodies ==
    {[projects |-> ps] : ps \in SeqsUpTo(ProjectRecords, MaxProjects)}
    \cup {EmptyDict}

UserBodies ==
    { [name |-> "Ann", last_name |-> "Lee", email |-> "a@x", id |-> "u1",
       plan |-> "free", image |-> "png"] }

\* The 2xx body of every endpoint whose body the tools pass through unread.
OkBodies == {[data |-> "ok"]}

(***************************************************************************)
(* Cloud Project API client (tools.py).                                    *)
(***************************************************************************)
FilteredProjectKeys == {"id", "name", "region_id", "pg_version", "org_id"}

\* The project record handed on as it came.
filtered_project_unfiltered(project) == project

\* tools.py list_projects, lines 73-79
filtered_project(project) ==
    [k \in FilteredProjectKeys |-> Get(project, k, None)]

\* tools.py list_projects
list_projects(response) ==
    LET full_response == Fetch(response)
    IN  IF full_response.kind = "raise"
        THEN full_response
        ELSE LET projects == Get(full_response.value, "projects", << >>)
             IN  Return([projects |->
                           [i \in 1..Len(projects) |-> filtered_project(projects[i])]])

\* A request as handed to requests: verb, path under BASE_URL, and the
\* json= or params= argument (EmptyDict when the call passes neither).
Request(method, url, data) == [method |-> method, url |-> url, data |-> data]

\* tools.py list_projects_with_details
list_projects_with_details(response) == Fetch(response)

\* tools.py get_project
get_project(response) == Fetch(response)

\* tools.py create_project, lines 134-140: the json= payload
create_project_payload(name, region_id, pg_version) ==
    [project |-> [pg_version |-> pg_version, name |-> name, region_id |-> region_id]]

\* tools.py create_project
create_project(response) == Fetch(response)

\* tools.py delete_project: the request and handle_response inside
\* try/except Exception, which prints and raises the exception again.
delete_project(response) ==
    LET result == Fetch(response)
    IN  IF result.kind = "raise" THEN Raise(result.value.exception) ELSE result

\* One optional key of a dict: present only when the argument is not None.
Optional(key, value) == IF value # None THEN key :> value ELSE EmptyDict

\* str(pooled).lower()
LowerBool(pooled) == IF pooled = "True" THEN "true" ELSE "false"

\* tools.py get_connection_uri, lines 197-206: the params= argument
get_connection_uri_params(database_name, role_name, branch_id, endpoint_id, pooled) ==
    (IF pooled # None THEN "pooled" :> LowerBool(pooled) ELSE EmptyDict)
    @@ Optional("endpoint_id", endpoint_id)
    @@ Optional("branch_id", branch_id)
    @@ [database_name |-> database_name, role_name |-> role_name]

\* tools.py get_connection_uri: as delete_project, inside try/except.
get_connection_uri(response) ==
    LET result == Fetch(response)
    IN  IF result.kind = "raise" THEN Raise(result.value.exception) ELSE result

\* The payload with every optional field sent, null when not supplied.
create_project_branch_payload_null_fields(parent_id, name, endpoint_type) ==
    [branch |-> [parent_id |-> parent_id, name |-> name],
     endpoints |-> <<[type |-> endpoint_type]>>]

\* tools.py create_project_branch, lines 233-239: the json= payload
create_project_branch_payload(parent_id, name, endpoint_type) ==
    (IF endpoint_type # None
     THEN "endpoints" :> <<[type |-> endpoint_type]>>
     ELSE EmptyDict)
    @@ [branch |-> Optional("name", name) @@ Optional("parent_id", parent_id)]

\* tools.py create_project_branch
create_project_branch(response) == Fetch(response)

\* tools.py list_project_branches
list_project_branches(response) == Fetch(response)

\* tools.py get_project_branch
get_project_branch(response) == Fetch(response)

\* tools.py delete_project_branch
delete_project_branch(response) == Fetch(response)

UserInfoKeys == {"name", "last_name", "email", "id", "plan"}

\* tools.py get_current_user_info
get_current_user_info(response) ==
    LET user_info == Fetch(response)
    IN  IF user_info.kind = "raise"
        THEN Raise(user_info.value.exception)
        ELSE Return([k \in UserInfoKeys |-> Get(user_info.value, k, None)])

(***************************************************************************)
(* Python str operations used on the SQL statement.                        *)
(***************************************************************************)
\* Characters str.strip() removes.
Whitespace == {" ", "\t", "\n", "\r"}

UpperLetters == <<"A","B","C","D","E","F","G","H","I","J","K","L","M",
                  "N","O","P","Q","R","S","T","U","V","W","X","Y","Z">>

LowerLetters == <<"a","b","c","d","e","f","g","h","i","j","k","l","m",
                  "n","o","p","q","r","s","t","u","v","w","x","y","z">>

LowerChar(c) ==
    IF \E i \in DOMAIN UpperLetters : UpperLetters[i] = c
    THEN LowerLetters[CHOOSE i \in DOMAIN UpperLetters : UpperLetters[i] = c]
    ELSE c

\* str.lower()
Lower(s) == [i \in 1..Len(s) |-> LowerChar(s[i])]

RECURSIVE LStrip(_)
\* str.lstrip()
LStrip(s) ==
    IF s # << >> /\ Head(s) \in Whitespace THEN LStrip(Tail(s)) ELSE s

RECURSIVE RStrip(_)
\* str.rstrip()
RStrip(s) ==
    IF s # << >> /\ s[Len(s)] \in Whitespace
    THEN RStrip(SubSeq(s, 1, Len(s) - 1))
    ELSE s

\* str.strip()
Strip(s) == RStrip(LStrip(s))

\* str.startswith(prefix)
StartsWith(s, prefix) ==
    Len(s) >= Len(prefix) /\ SubSeq(s, 1, Len(prefix)) = prefix

SelectKeyword == <<"s","e","l","e","c","t">>

\* The test without strip().
IsSelectStatement_unstripped(sql_query) ==
    StartsWith(Lower(sql_query), SelectKeyword)

\* tools.py line 363: sql_query.strip().lower().startswith("select")
IsSelectStatement(sql_query) ==
    StartsWith(Lower(Strip(sql_query)), SelectKeyword)

(***************************************************************************)
(* SQL inputs and what the database can answer.                            *)
(***************************************************************************)
\* "SELECT 1", "  select 1 ", "\n\tSeLeCt 1\n", "selectx", "(select 1)",
\* "INSERT", "sel" and " ".
Queries ==
    { <<"S","E","L","E","C","T"," ","1">>,
      <<" "," ","s","e","l","e","c","t"," ","1"," ">>,
      <<"\n","\t","S","e","L","e","C","t"," ","1","\n">>,
      <<"s","e","l","e","c","t","x">>,
      <<"(","s","e","l","e","c","t"," ","1",")">>,
      <<"I","N","S","E","R","T">>,
      <<"s","e","l">>,
      <<" ">> }

\* tools.py lines 392-404: the text of schema_query, which opens with a
\* line break and four blanks before SELECT; the rest of the text, which
\* the code never inspects, is cut after the keyword.
schema_query ==
    <<"\n"," "," "," "," ","S","E","L","E","C","T"," ","\n",".",".",".",";","\n"," "," "," "," ">>

\* Rows of information_schema.columns: table, column, type, nullable.
SchemaRows ==
    { <<"users", "id", "integer", "NO">>,
      <<"users", "email", "text", "YES">>,
      <<"orders", "id", "integer", "NO">> }

\* information_schema.columns has one row per column, so no row comes
\* twice; the order is left to the server.
SchemaResultSets ==
    {r \in SeqsUpTo(SchemaRows, MaxRows) :
        \A i, j \in DOMAIN r : r[i] = r[j] => i = j}

\* Rows of any other statement: the code hands them on unread.
ResultSets == SeqsUpTo({<<"1">>}, MaxRows)

ConnectionUris == {"postgresql://neondb_owner@ep-1/neondb"}

\* What the server does with one statement: refuse the connection, fail the
\* statement, run it with a result set, run it without one (fetchall then
\* raises), and accept or fail the commit.
DbAnswers(resultSets) ==
    {[connect_ok |-> FALSE, execute_ok |-> FALSE, has_rows |-> FALSE,
      rows |-> << >>, commit_ok |-> FALSE]}
    \cup {[connect_ok |-> TRUE, execute_ok |-> FALSE, has_rows |-> FALSE,
           rows |-> << >>, commit_ok |-> FALSE]}
    \cup {[connect_ok |-> TRUE, execute_ok |-> TRUE, has_rows |-> TRUE,
           rows |-> r, commit_ok |-> TRUE] : r \in resultSets}
    \cup {[connect_ok |-> TRUE, execute_ok |-> TRUE, has_rows |-> FALSE,
           rows |-> << >>, commit_ok |-> c] : c \in BOOLEAN}

(***************************************************************************)
(* SQL execution client (tools.py).                                        *)
(***************************************************************************)
\* What one execute_sql call did: whether it opened a connection, closed
\* the cursor, closed the connection itself, committed, fetched, and its
\* outcome.
SqlEffect(connected, cursor_closed, committed, fetched, result) ==
    [connected |-> connected, cursor_closed |-> cursor_closed,
     conn_closed |-> FALSE, committed |-> committed, fetched |-> fetched,
     result |-> result]

\* tools.py execute_sql; `free` tells whether the server still accepts a
\* connection.
execute_sql(connection_uri, sql_query, db, free) ==
    IF ~(db.connect_ok /\ free)
    THEN SqlEffect(FALSE, FALSE, FALSE, FALSE, Raise("OperationalError"))
    ELSE IF ~db.execute_ok
    THEN SqlEffect(TRUE, FALSE, FALSE, FALSE, Raise("DatabaseError"))
    ELSE IF IsSelectStatement(sql_query)
    THEN IF db.has_rows
         THEN SqlEffect(TRUE, TRUE, FALSE, TRUE, Return(db.rows))
         ELSE SqlEffect(TRUE, FALSE, FALSE, FALSE, Raise("ProgrammingError"))
    ELSE IF db.commit_ok
         THEN SqlEffect(TRUE, TRUE, TRUE, FALSE, Return(<< >>))
         ELSE SqlEffect(TRUE, FALSE, FALSE, FALSE, Raise("DatabaseError"))

\* A row of an already seen table replacing that table's columns.
AddRow_overwrites(schema, row) ==
    LET column == [column_name |-> row[2], data_type |-> row[3], is_nullable |-> row[4]]
    IN  IF \E i \in DOMAIN schema : schema[i].table_name = row[1]
        THEN [i \in DOMAIN schema |->
                IF schema[i].table_name = row[1]
                THEN [schema[i] EXCEPT !.columns = <<column>>]
                ELSE schema[i]]
        ELSE Append(schema, [table_name |-> row[1], columns |-> <<column>>])

\* tools.py lines 410-418: one row added to the insertion-ordered dict
\* `schema`, kept as the sequence of its items.
AddRow(schema, row) ==
    LET column == [column_name |-> row[2], data_type |-> row[3], is_nullable |-> row[4]]
    IN  IF \E i \in DOMAIN schema : schema[i].table_name = row[1]
        THEN [i \in DOMAIN schema |->
                IF schema[i].table_name = row[1]
                THEN [schema[i] EXCEPT !.columns = Append(@, column)]
                ELSE schema[i]]
        ELSE Append(schema, [table_name |-> row[1], columns |-> <<column>>])

RECURSIVE Regroup(_, _)
\* tools.py lines 409-420: the loop over `results` and the final list.
Regroup(schema, results) ==
    IF results = << >>
    THEN schema
    ELSE Regroup(AddRow(schema, Head(results)), Tail(results))

\* tools.py fetch_database_schema: execute_sql on schema_query, regrouped;
\* a failure is logged and raised again. `results` keeps the outcome of
\* the execute_sql call: the value of the local `results`, or what the call
\* raised.
fetch_database_schema(connection_uri, db, free) ==
    LET executed == execute_sql(connection_uri, schema_query, db, free)
        outcome == IF executed.result.kind = "raise"
                   THEN executed
                   ELSE [executed EXCEPT
                            !.result = Return(Regroup(<< >>, executed.result.value))]
    IN  [results |-> executed.result] @@ outcome

(***************************************************************************)
(* Agents and hand-off functions (agents.py).                              *)
(***************************************************************************)
\* neon_agent given a hand-off to the SQL Generator as well.
neon_agent_with_generator ==
    [name |-> "Neon Agent",
     functions |-> <<"transfer_to_query_executor", "transfer_to_query_generator",
                     "list_projects_with_details", "get_project", "create_project",
                     "delete_project", "get_connection_uri", "create_project_branch",
                     "list_project_branches", "get_project_branch",
                     "delete_project_branch">>]

\* src/src/neon_swarm/agents.py neon_agent
neon_agent ==
    [name |-> "Neon Agent",
     functions |-> <<"transfer_to_query_executor", "list_projects_with_details",
                     "get_project", "create_project", "delete_project",
                     "get_connection_uri", "create_project_branch",
                     "list_project_branches", "get_project_branch",
                     "delete_project_branch">>]

\* src/src/neon_swarm/agents.py sql_executor
sql_executor ==
    [name |-> "SQL Executor",
     functions |-> <<"transfer_to_query_generator", "transfer_to_neon_agent",
                     "execute_sql">>]

\* src/src/neon_swarm/agents.py sql_generator
sql_generator ==
    [name |-> "SQL Generator",
     functions |-> <<"transfer_to_query_executor", "fetch_database_schema">>]

\* src/agents.py neon_agent: the agent of the top-level script, which is
\* given no hand-off function.
root_neon_agent ==
    [name |-> "Neon Agent",
     functions |-> <<"list_projects_with_details", "get_project", "create_project",
                     "delete_project", "get_connection_uri", "create_project_branch",
                     "list_project_branches", "get_project_branch",
                     "delete_project_branch">>]

Agents == {neon_agent, sql_executor, sql_generator, root_neon_agent}

\* No agent: the value of `active` before a session starts.
NoAgent == [name |-> "none", functions |-> << >>]

\* agents.py transfer_to_neon_agent
transfer_to_neon_agent == neon_agent

\* transfer_to_query_executor returning a result object that also rewrites
\* the context.
transfer_to_query_executor_with_context ==
    [agent |-> sql_executor,
     context_variables |-> [connection_uri |-> "postgresql://other"]]

\* agents.py transfer_to_query_executor
transfer_to_query_executor == sql_executor

\* transfer_to_query_generator returning the agent it was called from.
transfer_to_query_generator_stays == sql_executor

\* agents.py transfer_to_query_generator
transfer_to_query_generator == sql_generator

HandoffFunctions ==
    {"transfer_to_neon_agent", "transfer_to_query_executor", "transfer_to_query_generator"}

(***************************************************************************)
(* Session entry points (main.py).                                         *)
(***************************************************************************)
\* The text str(value) of a Python value.
Str(value) == [str |-> value]

\* The two fetched values under each other's key.
init_context_swapped(user_info, user_projects) ==
    [user_info |-> <<"Here is what you know about the user's info:\n        ",
                     Str(user_projects), "\n        ">>,
     user_projects |-> <<"Here is what you know about the user's projects:\n        ",
                         Str(user_info), "\n        ">>]

\* main.py lines 8-15: the two f-strings, each the description line, the
\* text of the fetched value on an indented line of its own, and the
\* indentation of the closing quotes.
init_context(user_info, user_projects) ==
    [user_info |-> <<"Here is what you know about the user's info:\n        ",
                     Str(user_info), "\n        ">>,
     user_projects |-> <<"Here is what you know about the user's projects:\n        ",
                         Str(user_projects), "\n        ">>]

\* src/src/neon_swarm/main.py sql_executor_init: the (agent, context) pair
sql_executor_init(connection_uri) ==
    [agent |-> sql_executor, context_variables |-> [connection_uri |-> connection_uri]]

(***************************************************************************)
(* The driving loop (the swarm runtime, outside this repository), as far   *)
(* as the tools and agents above depend on it.                             *)
(***************************************************************************)
\* The active agent's allow-list as the set of names the loop dispatches on.
Callable(agent) == {agent.functions[i] : i \in DOMAIN agent.functions}

\* The loop is running and the named function is one the active agent
\* offers.
Offered(name) == session = "running" /\ name \in Callable(active)

\* dict.update(other)
Update(d, other) == other @@ d

\* What a hand-off function's return value means to the loop: an Agent is
\* the new active agent and updates no context; a result object carries
\* its own agent and context update.
HandoffResult(returned) ==
    IF "agent" \in DOMAIN returned
    THEN returned
    ELSE [agent |-> returned, context_variables |-> EmptyDict]

NoSql ==
    [fn |-> "none", connection_uri |-> "", sql_query |-> << >>,
     server_rows |-> << >>, connected |-> FALSE,
     cursor_closed |-> FALSE, conn_closed |-> FALSE, committed |-> FALSE,
     fetched |-> FALSE, result |-> Return(<< >>), conn_open |-> FALSE]

Call(fn, request, response, result) ==
    [fn |-> fn, request |-> request, response |-> response, result |-> result]

ProjectIds == {"p1"}

BranchIds == {"br-1"}

Init ==
    /\ session = "none"
    /\ entry = "none"
    /\ active = NoAgent
    /\ context_variables = EmptyDict
    /\ tool = "none"
    /\ calls = << >>
    /\ sql = NoSql
    /\ openConns = 0
    /\ initialAgent = NoAgent
    /\ lastHandoff = "none"

\* A session whose entry point raised never starts.
InitFails(name, made) ==
    /\ session' = "crashed"
    /\ entry' = name
    /\ tool' = name
    /\ calls' = made
    /\ UNCHANGED <<active, context_variables, sql, openConns, initialAgent, lastHandoff>>

InitReturns(name, agent, context, made) ==
    /\ session' = "running"
    /\ entry' = name
    /\ active' = agent
    /\ initialAgent' = agent
    /\ context_variables' = context
    /\ tool' = name
    /\ calls' = made
    /\ UNCHANGED <<sql, openConns, lastHandoff>>

\* main.py: get_current_user_info(), list_projects(), the context dict,
\* and the agent the session starts with.
FetchAndStart(name, agent) ==
    \E r1 \in Responses(UserBodies), r2 \in Responses(ProjectsBodies) :
         LET user_info == get_current_user_info(r1)
             user_projects == list_projects(r2)
             call1 == Call("get_current_user_info",
                           Request("GET", <<"users", "me">>, EmptyDict), r1, user_info)
             call2 == Call("list_projects",
                           Request("GET", <<"projects">>, EmptyDict), r2, user_projects)
         IN  IF user_info.kind = "raise"
             THEN InitFails(name, <<call1>>)
             ELSE IF user_projects.kind = "raise"
             THEN InitFails(name, <<call1, call2>>)
             ELSE InitReturns(name, agent,
                              init_context(user_info.value, user_projects.value),
                              <<call1, call2>>)

\* neon_agent_init returning the SQL Executor.
NeonAgentInit_returns_executor ==
    /\ session = "none"
    /\ FetchAndStart("neon_agent_init", sql_executor)

\* src/src/neon_swarm/main.py neon_agent_init
NeonAgentInit ==
    /\ session = "none"
    /\ FetchAndStart("neon_agent_init", neon_agent)

\* src/main.py __main__
MainScript ==
    /\ session = "none"
    /\ FetchAndStart("__main__", root_neon_agent)

\* src/src/neon_swarm/main.py sql_executor_init
SqlExecutorInit ==
    /\ session = "none"
    /\ \E connection_uri \in ConnectionUris :
         LET started == sql_executor_init(connection_uri)
         IN  InitReturns("sql_executor_init", started.agent,
                         started.context_variables, << >>)

\* One data-returning tool call of the active agent: the call is logged,
\* the agent and the context stay. An exception is not handled here: it
\* reaches the caller of the loop, which ends the session or goes on.
InvokeTool(name, made, effect, result, conns) ==
    /\ tool' = name
    /\ calls' = made
    /\ sql' = effect
    /\ openConns' = conns
    /\ session' \in IF result.kind = "raise" THEN {"crashed", "running"} ELSE {"running"}
    /\ UNCHANGED <<entry, active, context_variables, initialAgent, lastHandoff>>

\* One API tool call: the request, the response it met and the result.
InvokeApi(name, request, response, result) ==
    InvokeTool(name, <<Call(name, request, response, result)>>, NoSql, result, openConns)

ListProjectsWithDetails ==
    /\ Offered("list_projects_with_details")
    /\ \E response \in Responses(ProjectsBodies) :
           InvokeApi("list_projects_with_details",
                     Request("GET", <<"projects">>, EmptyDict),
                     response, list_projects_with_details(response))

GetProject ==
    /\ Offered("get_project")
    /\ \E project_id \in ProjectIds, response \in Responses(OkBodies) :
           InvokeApi("get_project",
                     Request("GET", <<"projects", project_id>>, EmptyDict),
                     response, get_project(response))

CreateProject ==
    /\ Offered("create_project")
    /\ \E name \in {"app"}, region_id \in {"aws-us-east-2"}, pg_version \in {16},
          response \in Responses(OkBodies) :
           InvokeApi("create_project",
                     Request("POST", <<"projects">>,
                             create_project_payload(name, region_id, pg_version)),
                     response, create_project(response))

DeleteProject ==
    /\ Offered("delete_project")
    /\ \E project_id \in ProjectIds, response \in Responses(OkBodies) :
           InvokeApi("delete_project",
                     Request("DELETE", <<"projects", project_id>>, EmptyDict),
                     response, delete_project(response))

GetConnectionUri ==
    /\ Offered("get_connection_uri")
    /\ \E project_id \in ProjectIds, branch_id \in {None, "br-1"},
          endpoint_id \in {None}, pooled \in {None, "True"},
          response \in Responses(OkBodies) :
           InvokeApi("get_connection_uri",
                     Request("GET", <<"projects", project_id, "connection_uri">>,
                             get_connection_uri_params("neondb", "neondb_owner",
                                                       branch_id, endpoint_id, pooled)),
                     response, get_connection_uri(response))

CreateProjectBranch ==
    /\ Offered("create_project_branch")
    /\ \E project_id \in ProjectIds, parent_id \in {None, "br-1"},
          name \in {None, "dev", ""}, endpoint_type \in {None, "read_write"},
          response \in Responses(OkBodies) :
           InvokeApi("create_project_branch",
                     [args |-> [parent_id |-> parent_id, name |-> name,
                                endpoint_type |-> endpoint_type]]
                     @@ Request("POST", <<"projects", project_id, "branches">>,
                                create_project_branch_payload(parent_id, name, endpoint_type)),
                     response, create_project_branch(response))

ListProjectBranches ==
    /\ Offered("list_project_branches")
    /\ \E project_id \in ProjectIds, response \in Responses(OkBodies) :
           InvokeApi("list_project_branches",
                     Request("GET", <<"projects", project_id, "branches">>, EmptyDict),
                     response, list_project_branches(response))

GetProjectBranch ==
    /\ Offered("get_project_branch")
    /\ \E project_id \in ProjectIds, branch_id \in BranchIds,
          response \in Responses(OkBodies) :
           InvokeApi("get_project_branch",
                     Request("GET", <<"projects", project_id, "branches", branch_id>>,
                             EmptyDict),
                     response, get_project_branch(response))

DeleteProjectBranch ==
    /\ Offered("delete_project_branch")
    /\ \E project_id \in ProjectIds, branch_id \in BranchIds,
          response \in Responses(OkBodies) :
           InvokeApi("delete_project_branch",
                     Request("DELETE", <<"projects", project_id, "branches", branch_id>>,
                             EmptyDict),
                     response, delete_project_branch(response))

\* One SQL tool call; `db` is what the server answers. The connection execute_sql opened and never closed
\* is open when the call raises (the traceback holds it); when the call
\* returns it is unreferenced, and whether the interpreter has finalised
\* it by then is its choice (`collected`).
InvokeSql(name, connection_uri, sql_query, db, effect, collected) ==
    LET conn_open == /\ effect.connected
                     /\ ~effect.conn_closed
                     /\ ~(collected /\ effect.result.kind = "return")
    IN  InvokeTool(name, << >>,
                   [fn |-> name, connection_uri |-> connection_uri,
                    sql_query |-> sql_query, server_rows |-> db.rows,
                    conn_open |-> conn_open] @@ effect,
                   effect.result,
                   IF conn_open THEN openConns + 1 ELSE openConns)

ExecuteSql ==
    /\ Offered("execute_sql")
    /\ \E connection_uri \in ConnectionUris, sql_query \in Queries,
          db \in DbAnswers(ResultSets), collected \in BOOLEAN :
           InvokeSql("execute_sql", connection_uri, sql_query, db,
                     execute_sql(connection_uri, sql_query, db, openConns < MaxOpenConns),
                     collected)

FetchDatabaseSchema ==
    /\ Offered("fetch_database_schema")
    /\ \E connection_uri \in ConnectionUris, db \in DbAnswers(SchemaResultSets),
          collected \in BOOLEAN :
           InvokeSql("fetch_database_schema", connection_uri, schema_query, db,
                     fetch_database_schema(connection_uri, db, openConns < MaxOpenConns),
                     collected)

\* The interpreter finalises a connection object nothing refers to, which
\* closes its connection.
Finalize ==
    /\ session = "running"
    /\ openConns > 0
    /\ openConns' = openConns - 1
    /\ UNCHANGED <<session, entry, active, context_variables, tool, calls, sql,
                   initialAgent, lastHandoff>>

\* One hand-off: the function's return value replaces the active agent and
\* the context is carried forward, updated by what the result brings.
InvokeHandoff(name, returned) ==
    /\ active' = HandoffResult(returned).agent
    /\ context_variables' =
           Update(context_variables, HandoffResult(returned).context_variables)
    /\ lastHandoff' = name
    /\ tool' = name
    /\ calls' = << >>
    /\ sql' = NoSql
    /\ UNCHANGED <<session, entry, openConns, initialAgent>>

TransferToNeonAgent ==
    /\ Offered("transfer_to_neon_agent")
    /\ InvokeHandoff("transfer_to_neon_agent", transfer_to_neon_agent)

TransferToQueryExecutor ==
    /\ Offered("transfer_to_query_executor")
    /\ InvokeHandoff("transfer_to_query_executor", transfer_to_query_executor)

TransferToQueryGenerator ==
    /\ Offered("transfer_to_query_generator")
    /\ InvokeHandoff("transfer_to_query_generator", transfer_to_query_generator)

Next ==
    \/ NeonAgentInit
    \/ MainScript
    \/ SqlExecutorInit
    \/ ListProjectsWithDetails
    \/ GetProject
    \/ CreateProject
    \/ DeleteProject
    \/ GetConnectionUri
    \/ CreateProjectBranch
    \/ ListProjectBranches
    \/ GetProjectBranch
    \/ DeleteProjectBranch
    \/ ExecuteSql
    \/ FetchDatabaseSchema
    \/ Finalize
    \/ TransferToNeonAgent
    \/ TransferToQueryExecutor
    \/ TransferToQueryGenerator

Spec == Init /\ [][Next]_vars

(***************************************************************************)
(* Properties.                                                             *)
(***************************************************************************)
\* The response of call c is an HTTP response whose status is not 2xx.
NonSuccessResponse(c) ==
    c.response.kind = "response" /\ ~IsSuccess(c.response.status)

\* C1: for every non-2xx response, each of list_projects, get_project,
\* create_project, create_project_branch, list_project_branches,
\* get_project_branch and list_projects_with_details returns a dict of the
\* form {"error": ...} and does not raise.
C1_ErrorValueOnNon2xx ==
    \A i \in DOMAIN calls :
        ( /\ calls[i].fn \in {"list_projects", "get_project", "create_project",
                              "create_project_branch", "list_project_branches",
                              "get_project_branch", "list_projects_with_details"}
          /\ NonSuccessResponse(calls[i]) )
        => ( /\ calls[i].result.kind = "return"
             /\ DOMAIN calls[i].result.value = {"error"} )

\* C2: for every non-2xx response, each of delete_project,
\* get_connection_uri and get_current_user_info raises to its caller
\* instead of returning a value.
C2_RaisesOnNon2xx ==
    \A i \in DOMAIN calls :
        ( /\ calls[i].fn \in {"delete_project", "get_connection_uri",
                              "get_current_user_info"}
          /\ NonSuccessResponse(calls[i]) )
        => calls[i].result.kind = "raise"

\* C3: every execute_sql call, whether it returns or raises, has closed
\* the connection it opened when control is back with the caller, so no
\* connection of an earlier call is open during a later call or turn.
C3_ConnectionClosedOnReturn ==
    /\ sql.fn = "execute_sql" => ~sql.conn_open
    /\ openConns = 0

\* The agent a hand-off function is documented to transfer to.
DocumentedTarget(name) ==
    CASE name = "transfer_to_neon_agent" -> "Neon Agent"
      [] name = "transfer_to_query_executor" -> "SQL Executor"
      [] name = "transfer_to_query_generator" -> "SQL Generator"

\* What a hand-off function returns.
Returned(name) ==
    CASE name = "transfer_to_neon_agent" -> transfer_to_neon_agent
      [] name = "transfer_to_query_executor" -> transfer_to_query_executor
      [] name = "transfer_to_query_generator" -> transfer_to_query_generator

ToolNames ==
    UNION {Callable(a) : a \in Agents}

\* Whether the loop can invoke the named tool in the current state.
Invocable(name) ==
    CASE name = "list_projects_with_details" -> ENABLED ListProjectsWithDetails
      [] name = "get_project" -> ENABLED GetProject
      [] name = "create_project" -> ENABLED CreateProject
      [] name = "delete_project" -> ENABLED DeleteProject
      [] name = "get_connection_uri" -> ENABLED GetConnectionUri
      [] name = "create_project_branch" -> ENABLED CreateProjectBranch
      [] name = "list_project_branches" -> ENABLED ListProjectBranches
      [] name = "get_project_branch" -> ENABLED GetProjectBranch
      [] name = "delete_project_branch" -> ENABLED DeleteProjectBranch
      [] name = "execute_sql" -> ENABLED ExecuteSql
      [] name = "fetch_database_schema" -> ENABLED FetchDatabaseSchema
      [] name = "transfer_to_neon_agent" -> ENABLED TransferToNeonAgent
      [] name = "transfer_to_query_executor" -> ENABLED TransferToQueryExecutor
      [] name = "transfer_to_query_generator" -> ENABLED TransferToQueryGenerator

\* In a running session the active agent is one of the defined agents: the
\* initial one while no hand-off happened, afterwards the agent the most
\* recent hand-off function names; the tools that can be invoked are those
\* of its allow-list and no others.
ActiveIsLastTarget ==
    session = "running" =>
        /\ active \in Agents
        /\ lastHandoff = "none" => active = initialAgent
        /\ lastHandoff # "none" => active.name = DocumentedTarget(lastHandoff)
        /\ \A name \in ToolNames : Invocable(name) <=> name \in Callable(active)

\* The active agent changes only by a hand-off function of the allow-list
\* of the agent active before the step, and becomes that function's target.
ChangeOnlyByHandoff ==
    (session = "running" /\ active' # active) =>
        /\ tool' \in HandoffFunctions \cap Callable(active)
        /\ lastHandoff' = tool'
        /\ active'.name = DocumentedTarget(tool')

\* C4: after any sequence of tool calls and hand-offs exactly one agent is
\* active, the target of the most recent hand-off (the initial agent if
\* there was none); the agent changes only through a hand-off function of
\* the current agent's allow-list, and the callable tools are exactly the
\* allow-list of the active agent.
C4_SingleActiveAgent ==
    []ActiveIsLastTarget /\ [][ChangeOnlyByHandoff]_vars

\* C4 witness: a session that left the Project Agent and came back to it by
\* a second hand-off.
C4_Witness ==
    /\ session = "running"
    /\ initialAgent = neon_agent
    /\ lastHandoff = "transfer_to_neon_agent"
    /\ active = neon_agent
    /\ tool = "transfer_to_neon_agent"

\* The hand-off edges the allow-lists define, by agent name.
HandoffEdges ==
    {<<p[1].name, Returned(p[2]).name>> :
        p \in {q \in Agents \X HandoffFunctions : q[2] \in Callable(q[1])}}

\* The SQL Generator becomes active only in a step taken while the SQL
\* Executor is active, in a session that started at the Project Agent.
GeneratorOnlyAfterExecutor ==
    ( /\ session = "running"
      /\ initialAgent.name = "Neon Agent"
      /\ active'.name = "SQL Generator"
      /\ active.name # "SQL Generator" )
    => active.name = "SQL Executor"

\* C5: the hand-off edges are exactly Project->Executor, Executor->Generator,
\* Executor->Project and Generator->Executor, and in a session started at
\* the Project Agent the Generator becomes active only directly after the
\* Executor was active.
C5_HandoffGraph ==
    /\ [](HandoffEdges = { <<"Neon Agent", "SQL Executor">>,
                           <<"SQL Executor", "SQL Generator">>,
                           <<"SQL Executor", "Neon Agent">>,
                           <<"SQL Generator", "SQL Executor">> })
    /\ [][GeneratorOnlyAfterExecutor]_vars

\* C5 witness: the Generator active in a session that started at the
\* Project Agent.
C5_Witness ==
    /\ session = "running"
    /\ initialAgent = neon_agent
    /\ active = sql_generator
    /\ lastHandoff = "transfer_to_query_generator"

\* C6 as stated: every session an initialization function starts has the
\* Project Agent as its first active agent.
C6_ProjectAgentOnlyEntry ==
    session = "running" => initialAgent.name = "Neon Agent"

\* C6 amended: neon_agent_init and the top-level script start at the
\* Project Agent, sql_executor_init starts at the SQL Executor, and nothing
\* starts at the SQL Generator.
C6_EntryAgents ==
    session = "running" =>
        /\ entry \in {"neon_agent_init", "__main__", "sql_executor_init"}
        /\ entry \in {"neon_agent_init", "__main__"} =>
               /\ initialAgent.name = "Neon Agent"
               /\ "execute_sql" \notin Callable(initialAgent)
        /\ entry = "sql_executor_init" => initialAgent.name = "SQL Executor"
        /\ initialAgent.name # "SQL Generator"

\* C6 witness: a session started by sql_executor_init.
C6_Witness ==
    /\ session = "running"
    /\ entry = "sql_executor_init"
    /\ tool = "sql_executor_init"
    /\ active.name = "SQL Executor"

\* The statement, after any leading whitespace, opens with the letters of
\* "select" in either case.
BeginsWithSelect(q) ==
    LET letters == << {"s", "S"}, {"e", "E"}, {"l", "L"},
                      {"e", "E"}, {"c", "C"}, {"t", "T"} >>
    IN  \E k \in 0..Len(q) :
            /\ \A i \in 1..k : q[i] \in {" ", "\t", "\n", "\r"}
            /\ Len(q) >= k + Len(letters)
            /\ \A i \in 1..Len(letters) : q[k + i] \in letters[i]

\* C7: execute_sql fetches and returns the rows, without committing,
\* exactly when the statement begins with "select" after trimming and
\* ignoring case; for every other statement it commits and returns an
\* empty sequence without fetching.
C7_SelectFetchesOthersCommit ==
    sql.fn = "execute_sql" =>
        /\ sql.fetched => BeginsWithSelect(sql.sql_query)
        /\ sql.committed => ~BeginsWithSelect(sql.sql_query)
        /\ sql.result.kind = "return" =>
              IF BeginsWithSelect(sql.sql_query)
              THEN /\ sql.fetched
                   /\ ~sql.committed
                   /\ sql.result.value = sql.server_rows
              ELSE /\ sql.committed
                   /\ ~sql.fetched
                   /\ sql.result.value = << >>

\* C7 witness: a mixed-case SELECT between whitespace returned its rows.
C7_Witness ==
    /\ sql.fn = "execute_sql"
    /\ sql.sql_query = <<"\n","\t","S","e","L","e","C","t"," ","1","\n">>
    /\ sql.result.kind = "return"
    /\ sql.fetched
    /\ Len(sql.result.value) = 2

\* The context neon_agent_init builds: after the entry point returned, it
\* made one get_current_user_info call and one list_projects call, the
\* agent is the Project Agent, and the context has the two keys, each the
\* description text around the text of the value fetched.
NeonInitContext ==
    (session = "running" /\ tool \in {"neon_agent_init", "__main__"}) =>
        /\ Cardinality({i \in DOMAIN calls : calls[i].fn = "get_current_user_info"}) = 1
        /\ Cardinality({i \in DOMAIN calls : calls[i].fn = "list_projects"}) = 1
        /\ Len(calls) = 2
        /\ active.name = "Neon Agent"
        /\ DOMAIN context_variables = {"user_info", "user_projects"}
        /\ \E i \in DOMAIN calls :
              /\ calls[i].fn = "get_current_user_info"
              /\ context_variables["user_info"] =
                     << "Here is what you know about the user's info:\n        ",
                        [str |-> calls[i].result.value], "\n        " >>
        /\ \E i \in DOMAIN calls :
              /\ calls[i].fn = "list_projects"
              /\ context_variables["user_projects"] =
                     << "Here is what you know about the user's projects:\n        ",
                        [str |-> calls[i].result.value], "\n        " >>

\* C8 as stated: neon_agent_init builds that context, and every session's
\* context is created this way.
C8_EveryContextFromInit ==
    /\ NeonInitContext
    /\ session = "running" =>
           DOMAIN context_variables = {"user_info", "user_projects"}

\* C8 amended: neon_agent_init (and the top-level script, which repeats its
\* body) builds that context; a session started by sql_executor_init has
\* the context {connection_uri}.
C8_InitContext ==
    /\ NeonInitContext
    /\ (session = "running" /\ entry \in {"neon_agent_init", "__main__"}) =>
           DOMAIN context_variables = {"user_info", "user_projects"}
    /\ (session = "running" /\ entry = "sql_executor_init") =>
           /\ DOMAIN context_variables = {"connection_uri"}
           /\ context_variables["connection_uri"] \in ConnectionUris

\* C8 witness: neon_agent_init returned with a user and two projects.
C8_Witness ==
    /\ session = "running"
    /\ tool = "neon_agent_init"
    /\ Len(calls) = 2
    /\ calls[1].result.value["id"] = "u1"
    /\ Len(calls[2].result.value["projects"]) = 2

\* A running session's step keeps every key of the context, and a step
\* that invoked a hand-off function leaves the context as it was.
ContextKept ==
    session = "running" =>
        /\ DOMAIN context_variables \subseteq DOMAIN context_variables'
        /\ tool' \in HandoffFunctions => context_variables' = context_variables

\* C9: across tool calls and hand-offs the context never loses a key, and
\* a hand-off leaves the context exactly as it was for the new agent.
C9_ContextCarriedForward == [][ContextKept]_vars

\* C9 witness: the Executor active after a hand-off, with the context the
\* session started with.
C9_Witness ==
    /\ session = "running"
    /\ tool = "transfer_to_query_executor"
    /\ active.name = "SQL Executor"
    /\ DOMAIN context_variables = {"user_info", "user_projects"}

\* The project list the upstream payload of call c carries.
UpstreamProjects(c) ==
    IF /\ c.response.kind = "response"
       /\ c.response.is_json
       /\ "projects" \in DOMAIN c.response.body
    THEN c.response.body["projects"]
    ELSE << >>

\* C10: each entry list_projects returns has exactly the keys id, name,
\* region_id, pg_version and org_id, one entry per upstream project in
\* upstream order, whatever extra or missing fields the upstream has.
C10_FilteredProjects ==
    \A i \in DOMAIN calls :
        (calls[i].fn = "list_projects" /\ calls[i].result.kind = "return") =>
            LET out == calls[i].result.value["projects"]
                up == UpstreamProjects(calls[i])
                keys == {"id", "name", "region_id", "pg_version", "org_id"}
            IN  /\ Len(out) = Len(up)
                /\ \A j \in DOMAIN out :
                      /\ DOMAIN out[j] = keys
                      /\ \A k \in keys :
                            out[j][k] = IF k \in DOMAIN up[j] THEN up[j][k] ELSE "None"

\* C10 witness: list_projects returned two entries for a payload whose first
\* record lacks fields and whose second has extra ones.
C10_Witness ==
    /\ Len(calls) = 2
    /\ calls[2].fn = "list_projects"
    /\ calls[2].result.kind = "return"
    /\ Len(UpstreamProjects(calls[2])) = 2
    /\ "org_id" \notin DOMAIN UpstreamProjects(calls[2])[1]
    /\ "owner_id" \in DOMAIN UpstreamProjects(calls[2])[2]
    /\ calls[2].result.value["projects"][1]["id"] = "p2"
    /\ calls[2].result.value["projects"][2]["id"] = "p1"

\* The column entry an input row stands for.
ColumnOf(row) ==
    [column_name |-> row[2], data_type |-> row[3], is_nullable |-> row[4]]

\* The rows of table t, in row order.
RowsOfTable(rows, t) == SelectSeq(rows, LAMBDA r : r[1] = t)

\* The position of the first row of table t.
FirstRow(rows, t) ==
    CHOOSE i \in DOMAIN rows :
        rows[i][1] = t /\ \A j \in 1..(i - 1) : rows[j][1] # t

\* out is rows regrouped: one record per distinct table, tables in
\* first-seen order, and under each table one entry per row of that table,
\* in row order.
Regrouped(rows, out) ==
    /\ {out[i].table_name : i \in DOMAIN out} = {rows[i][1] : i \in DOMAIN rows}
    /\ \A i, j \in DOMAIN out :
          i < j => /\ out[i].table_name # out[j].table_name
                   /\ FirstRow(rows, out[i].table_name) < FirstRow(rows, out[j].table_name)
    /\ \A i \in DOMAIN out :
          LET mine == RowsOfTable(rows, out[i].table_name)
          IN  /\ DOMAIN out[i] = {"table_name", "columns"}
              /\ out[i].columns = [k \in DOMAIN mine |-> ColumnOf(mine[k])]

\* C11: fetch_database_schema returns the rows execute_sql returned,
\* regrouped into one {table_name, columns} record per distinct table, with
\* tables in first-seen order and columns in row order, every row exactly
\* once under its own table; when execute_sql raised, the same exception
\* reaches the caller.
C11_SchemaRegrouped ==
    sql.fn = "fetch_database_schema" =>
        /\ sql.results.kind = "raise" => sql.result = sql.results
        /\ sql.results.kind = "return" =>
              /\ sql.results.value = sql.server_rows
              /\ sql.result.kind = "return"
              /\ Regrouped(sql.results.value, sql.result.value)

\* C11 witness: the rows orders.id, users.id, users.email came back as two
\* tables, orders first, users with both of its columns in row order.
C11_Witness ==
    /\ sql.fn = "fetch_database_schema"
    /\ sql.result.kind = "return"
    /\ sql.server_rows = << <<"orders", "id", "integer", "NO">>,
                            <<"users", "id", "integer", "NO">>,
                            <<"users", "email", "text", "YES">> >>
    /\ Len(sql.result.value) = 2
    /\ sql.result.value[1].table_name = "orders"
    /\ sql.result.value[2].table_name = "users"
    /\ Len(sql.result.value[2].columns) = 2
    /\ sql.result.value[2].columns[1].column_name = "id"
    /\ sql.result.value[2].columns[2].column_name = "email"

\* The keys among `keys` whose argument was supplied (is not None).
Supplied(args, keys) == {k \in keys : args[k] # None}

\* C12: the body create_project_branch sends always has a "branch" object;
\* "branch" holds parent_id and name exactly when they are supplied, with
\* the supplied values; the body has "endpoints", equal to the one-element
\* list [{"type": endpoint_type}], exactly when endpoint_type is supplied;
\* with no optional argument the body is exactly {"branch": {}}.
C12_BranchPayload ==
    \A i \in DOMAIN calls :
        calls[i].fn = "create_project_branch" =>
            LET args == calls[i].request.args
                body == calls[i].request.data
            IN  /\ "branch" \in DOMAIN body
                /\ DOMAIN body =
                       {"branch"} \cup
                       (IF args.endpoint_type # None THEN {"endpoints"} ELSE {})
                /\ DOMAIN body["branch"] = Supplied(args, {"parent_id", "name"})
                /\ \A k \in DOMAIN body["branch"] : body["branch"][k] = args[k]
                /\ "endpoints" \in DOMAIN body =>
                       body["endpoints"] = <<[type |-> args.endpoint_type]>>
                /\ Supplied(args, {"parent_id", "name", "endpoint_type"}) = {} =>
                       body = [branch |-> EmptyDict]

\* C12 witness: a call with a parent and an endpoint type but no name sent
\* a body with branch.parent_id, no branch.name and one endpoint.
C12_Witness ==
    /\ tool = "create_project_branch"
    /\ Len(calls) = 1
    /\ calls[1].request.args =
           [parent_id |-> "br-1", name |-> None, endpoint_type |-> "read_write"]
    /\ calls[1].request.data =
           [branch |-> [parent_id |-> "br-1"],
            endpoints |-> <<[type |-> "read_write"]>>]

====
